---- MODULE Spec2Model ----
(***************************************************************************)
(* State-machine model of the MakerSG ESP32 flasher page (src/script.js)   *)
(* and of the simulated installer (src/unnamed/part_000).                  *)
(*                                                                         *)
(* src/script.js holds two revisions of the page script back to back       *)
(* (lines 1-387 and lines 389-770).  The variable ver says which revision  *)
(* is running; where the revisions differ the actions branch on it.        *)
(*                                                                         *)
(* One action is one run of the JavaScript event loop: from the event or   *)
(* the settled promise that resumes a handler to the next await of a       *)
(* pending I/O promise (or to the handler's end).                          *)
(***************************************************************************)
EXTENDS Integers, Sequences, FiniteSets, TLC

(***************************************************************************)
(* Program constants                                                       *)
(***************************************************************************)
CHUNK_SIZE == 16384

DEFAULT_FLASH_ADDRESS == 65536

(***************************************************************************)
(* Bounds of the model                                                     *)
(***************************************************************************)
\* install handlers that may be suspended at the same time
MaxInstalls == 2

\* connect-button handlers that may be suspended at the same time
MaxConnects == 2

\* serial ports the user can pick in the port prompt
NumPorts == 2

\* onSelectionChanged calls that may wait for a manifest load at the same time
MaxPending == 2

\* whole extra chunks of the largest generated image (see ImageLens)
MaxChunks == 2

(***************************************************************************)
(* Values                                                                  *)
(***************************************************************************)
\* JavaScript null / undefined for object-valued fields
NULL == [null |-> TRUE]

\* a descriptor field `address` that is not there
ABSENT == 0 - 1

Ports == 1..NumPorts

Min(a, b) == IF a < b THEN a ELSE b

\* src/script.js:75-88 and 426-439
defaultPrograms == <<"mochinav", "chatbot">>

defaultChips == <<"ESP32-S3-M16R8", "ESP32-S3-SUPER", "ESP32-S3-ZERO">>

defaultOleds == <<"OLED-0.91", "OLED-0.96", "OLED-1.3">>

Range(s) == {s[k] : k \in DOMAIN s}

(***************************************************************************)
(* Descriptor resolver: onSelectionChanged, src/script.js:173-180, 516-524 *)
(***************************************************************************)
\* revision 2 maps every id other than chatbot to MochiNav
progKeyV2(p) == IF p = "chatbot" THEN "ChatBotAI" ELSE "MochiNav"

\* revision 1 lets unknown ids through unchanged
progKeyV1(p) ==
    IF p = "chatbot" THEN "ChatBotAI" ELSE IF p = "mochinav" THEN "MochiNav" ELSE p

\* a key built from the option id as it is
progKeyRaw(v, p) == p

\* a key that names one product whatever the option
progKeyMerged(v, p) == "MochiNav"

progKey(v, p) == IF v = 1 THEN progKeyV1(p) ELSE progKeyV2(p)

\* `${progKey}|${state.chip}|${state.oled}`
MakeKey(v, p, c, o) == progKey(v, p) \o "|" \o c \o "|" \o o

\* manifestMap[key] || null
Lookup(map, key) == IF key \in DOMAIN map THEN map[key] ELSE NULL

(***************************************************************************)
(* The content the server publishes (the environment of the page)          *)
(***************************************************************************)
\* a firmware image: len bytes, byte k (from 0) is (seed + 7*k) % 256
Image(n, s) == [len |-> n, seed |-> s]

ByteAt(img, k) == (img.seed + 7 * k) % 256

\* a manifest entry: url "", address ABSENT and hasParts FALSE are absent
\* fields; erase is erase_before_write
Desc(u, a, hp, ps, e) ==
    [url |-> u, address |-> a, hasParts |-> hp, parts |-> ps, erase |-> e]

Part(a, u, b) == [address |-> a, url |-> u, data_base64 |-> b]

DSingle == Desc("fw-a.bin", ABSENT, FALSE, <<>>, FALSE)

DAddrZero == Desc("fw-b.bin", 0, FALSE, <<>>, TRUE)

DParts ==
    Desc("fw-c.bin", 4096, TRUE,
         <<Part(4096, "boot.bin", FALSE), Part(32768, "", TRUE), Part(65536, "app.bin", TRUE)>>, FALSE)

DBadPart ==
    Desc("fw-a.bin", ABSENT, TRUE,
         <<Part(0, "", TRUE), Part(4096, "", FALSE), Part(8192, "", TRUE)>>, FALSE)

DNoUrl == Desc("", ABSENT, TRUE, <<Part(0, "", TRUE)>>, FALSE)

EmptyMap == [k \in {} |-> NULL]

\* the manifests the server may publish
ManifestA ==
    (MakeKey(1, "mochinav", defaultChips[1], defaultOleds[1]) :> DSingle)
    @@ (MakeKey(1, "chatbot", defaultChips[1], defaultOleds[1]) :> DParts)
    @@ (MakeKey(1, "mochinav", defaultChips[2], defaultOleds[1]) :> DAddrZero)
    @@ (MakeKey(1, "chatbot", defaultChips[1], defaultOleds[3]) :> DNoUrl)
    @@ (MakeKey(1, "chatbot", defaultChips[3], defaultOleds[2]) :> DBadPart)

ManifestB ==
    (MakeKey(1, "mochinav", defaultChips[1], defaultOleds[1]) :> DAddrZero)
    @@ (MakeKey(1, "mochinav", defaultChips[3], defaultOleds[3]) :> DSingle)

(***************************************************************************)
(* Records of the handlers                                                 *)
(***************************************************************************)
\* the holder of a writable's lock that is the bootloader library's transport
ESP == 0 - 1

ConnIdle == [pc |-> "idle", p |-> 0]

\* an install handler that is not running; of a running one: pc is the await
\* it is suspended in, url the image URL it fetched, chunks the body read so
\* far, bin the image, parts and k the parts loop, addr and data the flashData
\* call in flight, eport the port given to ESPTransport, w the port whose
\* writer it holds, offset the loop variable of fallbackRawStream.  History:
\* writes (the slices written), flashed (the flashData calls that resolved),
\* pcts (the percents reported by the transfer), nFetch, nStruct, nRaw (image
\* fetches issued, entries into the structured path, starts of the raw
\* stream), desc (state.manifest at the click)
OpIdle ==
    [pc |-> "idle", url |-> "", chunks |-> <<>>, bin |-> <<>>, parts |-> <<>>,
     k |-> 0, data |-> <<>>, addr |-> 0, eport |-> 0, w |-> 0, offset |-> 0,
     writes |-> <<>>, flashed |-> <<>>, pcts |-> <<>>,
     nFetch |-> 0, nStruct |-> 0, nRaw |-> 0, result |-> "none", desc |-> NULL]

\* the last event concluded nothing
NoEvent == [kind |-> "", i |-> 0, op |-> OpIdle]

VARIABLES
    ver,            \* which revision of the script is running: 1 or 2
    hasEsptool,     \* window.ESPLoader && window.ESPTransport
    server,         \* the manifest the server publishes
    fw,             \* the firmware image the server sends for each firmware URL
    program,        \* state.program
    chip,           \* state.chip
    oled,           \* state.oled
    manifestMap,    \* manifestMap: NULL until a load finished
    manifest,       \* state.manifest: the resolved descriptor or NULL
    pending,        \* onSelectionChanged calls suspended in `await loadManifest()`
    initLoad,       \* init's own `await loadManifest()` is still pending
    installDis,     \* $installBtn.disabled
    downloadDis,    \* $downloadBtn.disabled
    connectDis,     \* $connectBtn.disabled
    port,           \* state.port: 0 (null) or the port
    reader,         \* state.reader: 0 (null) or the port whose decoded stream it reads
    writer,         \* state.writer: 0 (null) or the install handler whose writer it is
    connected,      \* $serialStatus shows 'Connected'
    portOpen,       \* the ports that are open in the browser
    wlock,          \* per port, who holds the lock of its writable: 0, a handler, ESP
    rloop,          \* the ports whose read loop is running
    conn,           \* the connect-button handlers
    inst,           \* the install-button handlers
    dl,             \* the download-button handler
    last,           \* what the last event concluded: an install click refused or
                    \* confirmed, an install handler completed or failed (with
                    \* its final record), disconnectSerial returning at once,
                    \* a load of the manifest failed, a setSignals threw
    sim             \* the page of the simulated installer, src/unnamed/part_000:
                    \* its selection, isInstalling, its two buttons, its timers

selVars == <<program, chip, oled, manifestMap, manifest, pending, initLoad>>

ctlVars == <<installDis, downloadDis, connectDis>>

\* what no handler of script.js touches: its environment, and the page of
\* the simulated installer
envVars == <<ver, hasEsptool, server, fw, sim>>

serVars == <<port, reader, writer, connected, portOpen, wlock, rloop>>

vars == <<envVars, selVars, ctlVars, serVars, conn, inst, dl, last>>

(***************************************************************************)
(* The simulated installer, src/unnamed/part_000                           *)
(***************************************************************************)
\* the steps of an installation, src/unnamed/part_000:98-105
steps == <<"connect", "detect", "authenticate", "flash", "verify", "done">>

\* the cards of the page
SimPrograms == {"mochinav", "chatbot"}

SimChips == {"ESP32-S3-M16R8", "ESP32-S3-SUPER"}

SimOleds == {"OLED-0.91", "OLED-1.3"}

\* installations the model lets run at once
MaxSimRuns == 2

\* updateButtons, src/unnamed/part_000:63-67
updateButtons(s) ==
    LET canInstall == s.selectedProgram # "" /\ s.selectedChip # "" /\ s.selectedOled # ""
                      /\ ~s.isInstalling IN
    [s EXCEPT !.installDisabled = ~canInstall,
              !.downloadDisabled = (s.selectedProgram = "" \/ s.isInstalling)]

\* the page once its script ran, src/unnamed/part_000:2-5, 170: nothing
\* selected, no installation; event is what the last handler did, shown the
\* percents displayed and width the bar (in units of 1/Len(steps) percent)
\* since the last start
SimStart ==
    updateButtons([selectedProgram |-> "", selectedChip |-> "", selectedOled |-> "",
                   isInstalling |-> FALSE, installDisabled |-> FALSE,
                   downloadDisabled |-> FALSE, timers |-> <<>>, logs |-> <<>>,
                   shown |-> <<>>, width |-> 0, event |-> ""])

\* everything script.js owns stays as it is
ScriptIdle == UNCHANGED <<ver, hasEsptool, server, fw, selVars, ctlVars, serVars, conn, inst, dl, last>>

\* a click on a card, src/unnamed/part_000:32-60
SimSelect(group, id) ==
    /\ sim' = updateButtons([sim EXCEPT
                 !.selectedProgram = IF group = "program" THEN id ELSE @,
                 !.selectedChip = IF group = "chip" THEN id ELSE @,
                 !.selectedOled = IF group = "oled" THEN id ELSE @,
                 !.event = "select"])
    /\ ScriptIdle

\* a handleInstall without its first line
handleInstallUnguarded ==
    /\ Len(sim.timers) < MaxSimRuns
    /\ sim' = updateButtons([sim EXCEPT
                 !.isInstalling = TRUE, !.logs = <<>>, !.shown = <<>>, !.width = 0,
                 !.timers = Append(@, [phase |-> "interval", currentStep |-> 0]),
                 !.event = IF sim.selectedProgram = "" \/ sim.selectedChip = ""
                              \/ sim.selectedOled = "" \/ sim.isInstalling
                           THEN "ignored" ELSE "started"])
    /\ ScriptIdle

\* handleInstall, src/unnamed/part_000:85-109: it returns at once without a
\* full selection or while isInstalling, otherwise it starts the interval
handleInstall ==
    /\ IF sim.selectedProgram = "" \/ sim.selectedChip = "" \/ sim.selectedOled = ""
          \/ sim.isInstalling
       THEN sim' = [sim EXCEPT !.event = "ignored"]
       ELSE /\ Len(sim.timers) < MaxSimRuns
            /\ sim' = updateButtons([sim EXCEPT
                         !.isInstalling = TRUE, !.logs = <<>>, !.shown = <<>>, !.width = 0,
                         !.timers = Append(@, [phase |-> "interval", currentStep |-> 0]),
                         !.event = "started"])
    /\ ScriptIdle

\* Math.round(((currentStep + 1) / steps.length) * 100),
\* src/unnamed/part_000:111, 115
simPercent(c) == (200 * (c + 1) + Len(steps)) \div (2 * Len(steps))

\* a tick that left a step out
SimTickSkips(k) ==
    /\ k \in DOMAIN sim.timers
    /\ sim.timers[k].phase = "interval"
    /\ LET c == sim.timers[k].currentStep IN
       IF c < Len(steps)
       THEN sim' = [sim EXCEPT !.width = 100 * (c + 1),
                               !.shown = Append(@, simPercent(c)),
                               !.logs = Append(@, steps[c + 1]),
                               !.timers[k].currentStep = Min(c + 2, Len(steps)),
                               !.event = "tick"]
       ELSE sim' = [sim EXCEPT !.timers[k].phase = "timeout", !.event = "cleared"]
    /\ ScriptIdle

\* the interval of installation k fires, src/unnamed/part_000:109-160: the
\* next step is shown and logged, or after the last one the interval is
\* cleared and the reset is scheduled
SimTick(k) ==
    /\ k \in DOMAIN sim.timers
    /\ sim.timers[k].phase = "interval"
    /\ LET c == sim.timers[k].currentStep IN
       IF c < Len(steps)
       THEN sim' = [sim EXCEPT !.width = 100 * (c + 1),
                               !.shown = Append(@, simPercent(c)),
                               !.logs = Append(@, steps[c + 1]),
                               !.timers[k].currentStep = c + 1,
                               !.event = "tick"]
       ELSE sim' = [sim EXCEPT !.timers[k].phase = "timeout", !.event = "cleared"]
    /\ ScriptIdle

\* the timeout of installation k fires, src/unnamed/part_000:153-158
SimTimeout(k) ==
    /\ k \in DOMAIN sim.timers
    /\ sim.timers[k].phase = "timeout"
    /\ sim' = updateButtons([sim EXCEPT
                 !.isInstalling = FALSE, !.width = 0,
                 !.timers = SubSeq(@, 1, k - 1) \o SubSeq(@, k + 1, Len(@)),
                 !.event = "reset"])
    /\ ScriptIdle

\* a click on the enabled download button, src/unnamed/part_000:164-167
SimDownload ==
    /\ ~sim.downloadDisabled
    /\ sim' = [sim EXCEPT !.event = IF sim.selectedProgram = "" THEN "ignored" ELSE "alert"]
    /\ ScriptIdle

(***************************************************************************)
(* Selection and manifest                                                  *)
(***************************************************************************)
\* onSelectionChanged, src/script.js:180-193, 524-537: the entry becomes the
\* descriptor and the install and download controls follow it
ApplyEntry(entry) ==
    /\ manifest' = entry
    /\ installDis' = (entry = NULL)
    /\ downloadDis' = (entry = NULL)

\* onOptionClick then onSelectionChanged, src/script.js:103-118, 173-194 and
\* 482-487, 516-538
OptionClick(group, id) ==
    /\ program' = IF group = "program" THEN id ELSE program
    /\ chip' = IF group = "chip" THEN id ELSE chip
    /\ oled' = IF group = "oled" THEN id ELSE oled
    /\ IF program' = "" \/ chip' = "" \/ oled' = ""
       THEN UNCHANGED <<manifest, installDis, downloadDis, pending>>
       ELSE LET key == MakeKey(ver, program', chip', oled') IN
            IF manifestMap = NULL
            THEN /\ Len(pending) < MaxPending
                 /\ pending' = Append(pending, [key |-> key, sel |-> <<program', chip', oled'>>])
                 /\ UNCHANGED <<manifest, installDis, downloadDis>>
            ELSE /\ ApplyEntry(Lookup(manifestMap, key))
                 /\ UNCHANGED pending
    /\ UNCHANGED <<manifestMap, initLoad, connectDis, envVars, serVars, conn, inst, dl>>
    /\ last' = NoEvent

\* a loadManifest that left the map null on a failure
LoadResultNull(ok) == IF ok THEN server ELSE NULL

\* loadManifest, src/script.js:163-171, 501-514: what ends up in manifestMap
LoadResult(ok) == IF ok THEN server ELSE EmptyMap

\* the load awaited by the k-th suspended onSelectionChanged settles and the
\* call goes on from src/script.js:179, 523
PendingLoadDone(k, ok) ==
    /\ k \in DOMAIN pending
    /\ manifestMap' = LoadResult(ok)
    /\ ApplyEntry(Lookup(manifestMap', pending[k].key))
    /\ pending' = SubSeq(pending, 1, k - 1) \o SubSeq(pending, k + 1, Len(pending))
    /\ UNCHANGED <<program, chip, oled, initLoad, connectDis, envVars, serVars, conn, inst, dl>>
    /\ last' = IF ok THEN NoEvent ELSE [NoEvent EXCEPT !.kind = "loadFailed"]

\* init's loadManifest settles, src/script.js:384, 768
InitLoadDone(ok) ==
    /\ initLoad
    /\ initLoad' = FALSE
    /\ manifestMap' = LoadResult(ok)
    /\ UNCHANGED <<program, chip, oled, manifest, pending, ctlVars, envVars, serVars, conn, inst, dl>>
    /\ last' = IF ok THEN NoEvent ELSE [NoEvent EXCEPT !.kind = "loadFailed"]

(***************************************************************************)
(* Transport session: connect, disconnect, read loop                       *)
(***************************************************************************)
FreeConn(c) ==
    /\ c \in 1..MaxConnects
    /\ conn[c].pc = "idle"
    /\ \A d \in 1..(c - 1) : conn[d].pc # "idle"

\* startReadLoop, src/script.js:234-246, 590-603, up to its first await:
\* a closed port has no readable and the TypeError is caught
StartReadLoop(p) ==
    IF p \in portOpen
    THEN /\ reader' = p
         /\ rloop' = rloop \cup {p}
    ELSE UNCHANGED <<reader, rloop>>

\* disconnectSerial from `await state.port.close()` on, src/script.js:226-231,
\* 582-587, given the writer field w the steps before left: with state.port
\* already null the call throws and the catch runs
DiscIssueClose(c, w) ==
    /\ writer' = w
    /\ IF port = 0
       THEN /\ conn' = [conn EXCEPT ![c] = ConnIdle]
            /\ connected' = FALSE
            /\ UNCHANGED port
       ELSE /\ conn' = [conn EXCEPT ![c] = [pc |-> "dPClose", p |-> port]]
            /\ UNCHANGED <<port, connected>>

\* disconnectSerial from the writer step on, src/script.js:225, 581
DiscAfterCancel(c) ==
    IF writer # 0
    THEN /\ conn' = [conn EXCEPT ![c] = [pc |-> "dWClose", p |-> writer]]
         /\ UNCHANGED <<port, connected, writer>>
    ELSE DiscIssueClose(c, writer)

\* the connect button with state.port set: disconnectSerial up to its first
\* await, src/script.js:198, 221-224 and 542-545, 577-580
DisconnectStart(c) ==
    /\ port # 0
    /\ IF reader # 0
       THEN /\ conn' = [conn EXCEPT ![c] = [pc |-> "dCancel", p |-> reader]]
            /\ UNCHANGED <<port, connected, writer>>
       ELSE DiscAfterCancel(c)
    /\ UNCHANGED <<reader, portOpen, wlock, rloop>>

\* a disconnectSerial that went on without looking at state.port
disconnectSerialUnguarded(c) ==
    /\ FreeConn(c)
    /\ IF reader # 0
       THEN /\ conn' = [conn EXCEPT ![c] = [pc |-> "dCancel", p |-> reader]]
            /\ UNCHANGED <<port, connected, writer>>
       ELSE DiscAfterCancel(c)
    /\ UNCHANGED <<reader, portOpen, wlock, rloop>>
    /\ UNCHANGED <<envVars, selVars, ctlVars, inst, dl>>
    /\ last' = IF port = 0 THEN [NoEvent EXCEPT !.kind = "closeNoop"] ELSE NoEvent

\* disconnectSerial called by itself, src/script.js:221-232, 577-588: with
\* state.port null it returns at once, otherwise it runs up to its first
\* await
disconnectSerial(c) ==
    /\ FreeConn(c)
    /\ IF port = 0
       THEN /\ UNCHANGED <<serVars, conn>>
            /\ last' = [NoEvent EXCEPT !.kind = "closeNoop"]
       ELSE /\ DisconnectStart(c)
            /\ last' = NoEvent
    /\ UNCHANGED <<envVars, selVars, ctlVars, inst, dl>>

\* the connect button with state.port null: up to `await requestPort()`,
\* src/script.js:199-201, 546-549
ConnectStart(c) ==
    /\ port = 0
    /\ conn' = [conn EXCEPT ![c] = [pc |-> "prompt", p |-> 0]]
    /\ UNCHANGED serVars

\* connectSerial / the connect click handler, src/script.js:197-219, 541-575
ConnectClick(c) ==
    /\ ~connectDis
    /\ FreeConn(c)
    /\ (DisconnectStart(c) \/ ConnectStart(c))
    /\ UNCHANGED <<envVars, selVars, ctlVars, inst, dl>>
    /\ last' = NoEvent

\* the port prompt is answered with port p: port.open is called,
\* src/script.js:201-202, 549-550
PromptPick(c, p) ==
    /\ conn[c].pc = "prompt"
    /\ conn' = [conn EXCEPT ![c] = [pc |-> "open", p |-> p]]
    /\ UNCHANGED <<envVars, selVars, ctlVars, serVars, inst, dl>>
    /\ last' = NoEvent

\* the prompt is dismissed, or port.open rejects (the device refuses, or the
\* port is open already): the catch at src/script.js:218, 571-574
OpenFail(c) ==
    /\ conn[c].pc \in {"prompt", "open"}
    /\ conn' = [conn EXCEPT ![c] = ConnIdle]
    /\ UNCHANGED <<envVars, selVars, ctlVars, serVars, inst, dl>>
    /\ last' = NoEvent

\* port.open resolved: src/script.js:203-217, 551-570, to the first
\* setSignals await or, on a port without setSignals, through startReadLoop
OpenDone(c, sig) ==
    /\ conn[c].pc = "open"
    /\ conn[c].p \notin portOpen
    /\ portOpen' = portOpen \cup {conn[c].p}
    /\ port' = conn[c].p
    /\ connected' = TRUE
    /\ IF sig
       THEN /\ conn' = [conn EXCEPT ![c].pc = "signals"]
            /\ UNCHANGED <<reader, rloop>>
       ELSE /\ conn' = [conn EXCEPT ![c] = ConnIdle]
            /\ reader' = conn[c].p
            /\ rloop' = rloop \cup {conn[c].p}
    /\ UNCHANGED <<writer, wlock>>
    /\ UNCHANGED <<envVars, selVars, ctlVars, inst, dl>>
    /\ last' = NoEvent

\* a toggle whose throw left the connect handler before startReadLoop
SignalsThrowLeaves(c, ok) ==
    /\ conn[c].pc = "signals"
    /\ conn' = [conn EXCEPT ![c] = ConnIdle]
    /\ IF ok THEN StartReadLoop(conn[c].p) ELSE UNCHANGED <<reader, rloop>>
    /\ UNCHANGED <<port, writer, connected, portOpen, wlock>>
    /\ UNCHANGED <<envVars, selVars, ctlVars, inst, dl>>
    /\ last' = IF ok THEN NoEvent ELSE [NoEvent EXCEPT !.kind = "signalsFailed"]

\* the control-line toggle is over, finished (ok) or thrown (the catch at
\* src/script.js:215, 568 only logs): startReadLoop, src/script.js:217, 570
SignalsDone(c, ok) ==
    /\ conn[c].pc = "signals"
    /\ conn' = [conn EXCEPT ![c] = ConnIdle]
    /\ StartReadLoop(conn[c].p)
    /\ UNCHANGED <<port, writer, connected, portOpen, wlock>>
    /\ UNCHANGED <<envVars, selVars, ctlVars, inst, dl>>
    /\ last' = IF ok THEN NoEvent ELSE [NoEvent EXCEPT !.kind = "signalsFailed"]

\* reader.cancel() settled, src/script.js:224, 580: resolved, the read loop
\* of that reader sees done and disconnectSerial goes on; rejected, the catch
\* runs and state.port is reset
CancelDone(c, ok) ==
    /\ conn[c].pc = "dCancel"
    /\ IF ok
       THEN /\ reader' = 0
            /\ rloop' = rloop \ {conn[c].p}
            /\ DiscAfterCancel(c)
       ELSE /\ conn' = [conn EXCEPT ![c] = ConnIdle]
            /\ port' = 0
            /\ connected' = FALSE
            /\ UNCHANGED <<reader, rloop, writer>>
    /\ UNCHANGED <<portOpen, wlock>>
    /\ UNCHANGED <<envVars, selVars, ctlVars, inst, dl>>
    /\ last' = NoEvent

\* the writable that the writer of install handler i was taken from
WriterPort(i) == inst[i].w

\* state.writer.close() settled, src/script.js:225, 581: a rejection is
\* swallowed; resolved, the stream is closed and the port hands out a new one
WCloseDone(c, ok) ==
    /\ conn[c].pc = "dWClose"
    /\ LET i == conn[c].p
           q == WriterPort(i) IN
       wlock' = IF ok /\ q # 0 /\ wlock[q] = i THEN [wlock EXCEPT ![q] = 0] ELSE wlock
    /\ DiscIssueClose(c, 0)
    /\ UNCHANGED <<reader, portOpen, rloop>>
    /\ UNCHANGED <<envVars, selVars, ctlVars, inst, dl>>
    /\ last' = NoEvent

\* state.port.close() settled, src/script.js:226-231, 582-587
PCloseDone(c, ok) ==
    /\ conn[c].pc = "dPClose"
    /\ ok => conn[c].p \in portOpen
    /\ IF ok
       THEN /\ portOpen' = portOpen \ {conn[c].p}
            /\ wlock' = [wlock EXCEPT ![conn[c].p] = 0]
            /\ rloop' = rloop \ {conn[c].p}
       ELSE UNCHANGED <<portOpen, wlock, rloop>>
    /\ port' = 0
    /\ connected' = FALSE
    /\ conn' = [conn EXCEPT ![c] = ConnIdle]
    /\ UNCHANGED <<reader, writer>>
    /\ UNCHANGED <<envVars, selVars, ctlVars, inst, dl>>
    /\ last' = NoEvent

\* a read loop whose end took the session down
ReadLoopEndAborts(p) ==
    /\ p \in rloop
    /\ rloop' = rloop \ {p}
    /\ port' = 0
    /\ connected' = FALSE
    /\ UNCHANGED <<reader, writer, portOpen, wlock>>
    /\ UNCHANGED <<envVars, selVars, ctlVars, conn, inst, dl>>
    /\ last' = NoEvent

\* the read loop of port p ends: end of stream or a read error, both only
\* logged, src/script.js:240-245, 597-602
ReadLoopEnd(p) ==
    /\ p \in rloop
    /\ rloop' = rloop \ {p}
    /\ UNCHANGED <<port, reader, writer, connected, portOpen, wlock>>
    /\ UNCHANGED <<envVars, selVars, ctlVars, conn, inst, dl>>
    /\ last' = NoEvent

(***************************************************************************)
(* Byte arrays (Uint8Array).  An array is kept as a sequence of runs: the  *)
(* run [seed, lo, hi] stands for the bytes lo..hi-1 of the server image    *)
(* with that seed.  Bytes(a) is the array written out byte by byte.        *)
(***************************************************************************)
Run(s, lo, hi) == [seed |-> s, lo |-> lo, hi |-> hi]

\* the bytes of an image as an array
Whole(img) == IF img.len = 0 THEN <<>> ELSE <<Run(img.seed, 0, img.len)>>

RECURSIVE ArrLen(_)
\* u8.length
ArrLen(a) == IF a = <<>> THEN 0 ELSE (a[1].hi - a[1].lo) + ArrLen(Tail(a))

\* a followed by the run r, adjacent runs of one image joined
AppendRun(a, r) ==
    IF r.hi <= r.lo THEN a
    ELSE IF a # <<>> /\ a[Len(a)].seed = r.seed /\ a[Len(a)].hi = r.lo
         THEN [a EXCEPT ![Len(a)].hi = r.hi]
         ELSE Append(a, r)

RECURSIVE Join(_, _)
\* out.set(c, offset) for an array c placed right after a
Join(a, b) == IF b = <<>> THEN a ELSE Join(AppendRun(a, b[1]), Tail(b))

RECURSIVE Slice(_, _, _)
\* u8.slice(from, to) for 0 <= from, with to clamped to the length
Slice(a, from, to) ==
    IF a = <<>> \/ to <= from THEN <<>>
    ELSE LET n == a[1].hi - a[1].lo IN
         IF from >= n THEN Slice(Tail(a), from - n, to - n)
         ELSE Join(<<Run(a[1].seed, a[1].lo + from, a[1].lo + Min(to, n))>>,
                   Slice(Tail(a), 0, to - n))

RECURSIVE concatReversed(_)
\* the chunks put together last one first
concatReversed(chunks) ==
    IF chunks = <<>> THEN <<>>
    ELSE Join(concatReversed(Tail(chunks)), chunks[1])

RECURSIVE concatChunks(_)
\* concatChunks, src/script.js:358-365, 755-762
concatChunks(chunks) ==
    IF chunks = <<>> THEN <<>>
    ELSE Join(chunks[1], concatChunks(Tail(chunks)))

RECURSIVE Bytes(_)
\* the array byte by byte
Bytes(a) ==
    IF a = <<>> THEN <<>>
    ELSE [k \in 1..(a[1].hi - a[1].lo) |-> ByteAt(a[1], a[1].lo + k - 1)] \o Bytes(Tail(a))

\* a percent that is cut off instead of rounded
FloorPct(done, total) == (100 * done) \div total

\* Math.round(done / total * 100) for total > 0: the nearest integer, a half
\* rounded up
RoundPct(done, total) == (200 * done + total) \div (2 * total)

\* the slice fallbackRawStream writes at offset, src/script.js:346, 738
sliceAt(u8, offset) == Slice(u8, offset, Min(offset + CHUNK_SIZE, ArrLen(u8)))

\* the percent of the slice alone, not of all that was written
PctOfSlice(u8, offset) == RoundPct(ArrLen(sliceAt(u8, offset)), ArrLen(u8))

\* the percent fallbackRawStream reports after the slice at offset,
\* src/script.js:348, 740
pctAt(u8, offset) == RoundPct(offset + ArrLen(sliceAt(u8, offset)), ArrLen(u8))

\* a loop that steps one byte too far
SkipOffset(offset) == offset + CHUNK_SIZE + 1

\* the loop step of fallbackRawStream, src/script.js:345, 737
nextOffset(offset) == offset + CHUNK_SIZE

(***************************************************************************)
(* The images behind the URLs of the manifest                              *)
(***************************************************************************)
\* the firmware URLs of the manifests
FwUrls == {"fw-a.bin", "fw-b.bin", "fw-c.bin"}

\* what the server sends for a URL: a firmware image is fw[url], chosen with
\* the initial state; the images of the parts are fixed
ServerImage(url) ==
    IF url \in FwUrls THEN fw[url]
    ELSE IF url = "boot.bin" THEN Image(4096, 17) ELSE Image(1, 42)

\* atob(part.data_base64) as bytes, src/script.js:309, 683-686
InlineData(part) == Whole(Image(256, part.address % 256))

(***************************************************************************)
(* Install handler: installHandler, src/script.js:272-337, and the install *)
(* click handler, src/script.js:632-727                                    *)
(***************************************************************************)
FreeInst(i) ==
    /\ i \in 1..MaxInstalls
    /\ inst[i].pc = "idle"
    /\ \A j \in 1..(i - 1) : inst[j].pc # "idle"

\* what a step of a handler leaves behind: its own record, the writable locks
\* and state.writer
Eff(op, wl, wr) == [op |-> op, wlock |-> wl, writer |-> wr]

\* the handler is over: result is "completed" or "failed"
Finished(op, res) == [op EXCEPT !.pc = "idle", !.result = res]

\* a handler without its finally
NoFinally == UNCHANGED ctlVars

\* the finally of installHandler, src/script.js:334-336, 724-726
FinallyControls ==
    /\ installDis' = FALSE
    /\ downloadDis' = FALSE
    /\ connectDis' = FALSE

\* a step of install handler i takes effect; when it ended the handler the
\* finally runs, and the final record of the handler is kept in last
Commit(i, e) ==
    /\ inst' = [inst EXCEPT ![i] = IF e.op.pc = "idle" THEN OpIdle ELSE e.op]
    /\ last' = IF e.op.pc = "idle" THEN [kind |-> e.op.result, i |-> i, op |-> e.op] ELSE NoEvent
    /\ wlock' = e.wlock
    /\ writer' = e.writer
    /\ IF e.op.pc = "idle" THEN FinallyControls ELSE UNCHANGED ctlVars
    /\ UNCHANGED <<envVars, selVars, port, reader, connected, rloop, conn, dl>>

\* writer.releaseLock() in the finally of fallbackRawStream, src/script.js:355, 749
ReleaseLock(i, op, wl) ==
    IF op.w # 0 /\ wl[op.w] = i THEN [wl EXCEPT ![op.w] = 0] ELSE wl

\* the finally of fallbackRawStream and its return or throw into the
\* handler, src/script.js:354-355, 746-751
RawEnd(i, op, wl, res) ==
    Eff(Finished([op EXCEPT !.w = 0], res), ReleaseLock(i, op, wl), 0)

\* the write of the slice at op.offset is issued, src/script.js:346-347, 738-739
RawIssue(op) == [op EXCEPT !.pc = "rawWrite"]

\* after the loop of fallbackRawStream, src/script.js:352-353, 744-745
RawAllWritten(i, op, wl) ==
    RawEnd(i, [op EXCEPT !.pcts = Append(@, 100)], wl, "completed")

\* fallbackRawStream up to its first await, src/script.js:339-347, 730-739:
\* no port, no writable (the port is closed) or a locked writable throw
\* before a writer is taken
RawBegin(i, op0, wl) ==
    LET op == [op0 EXCEPT !.nRaw = @ + 1] IN
    IF port = 0 \/ port \notin portOpen \/ wl[port] # 0
    THEN Eff(Finished(op, "failed"), wl, writer)
    ELSE LET held == [op EXCEPT !.w = port, !.offset = 0]
             wl2 == [wl EXCEPT ![port] = i] IN
         IF 0 < ArrLen(op.bin)
         THEN Eff(RawIssue(held), wl2, i)
         ELSE RawAllWritten(i, held, wl2)

\* a catch that tried the library again instead of streaming
FallbackRetry(i, op, locked) ==
    Eff([op EXCEPT !.pc = "espMain", !.nStruct = @ + 1], wlock, writer)

\* the catch of the structured path, src/script.js:322-326, 710-715; the
\* library may have left the writable of its port locked, and the locals of
\* the try block are gone
Fallback(i, op, locked) ==
    RawBegin(i, [op EXCEPT !.parts = <<>>, !.k = 0, !.data = <<>>, !.addr = 0],
             IF locked /\ op.eport \in portOpen /\ wlock[op.eport] = 0
             THEN [wlock EXCEPT ![op.eport] = ESP] ELSE wlock)

\* state.manifest.address ? Number(state.manifest.address) : 0x10000,
\* src/script.js:316, 701
flashAddress(d) ==
    IF d.address # ABSENT /\ d.address # 0 THEN d.address ELSE DEFAULT_FLASH_ADDRESS

\* which source of a part is taken: revision 1 looks at url first,
\* revision 2 at data_base64 first, src/script.js:308-310, 682-694
PartSource(part) ==
    IF ver = 1
    THEN IF part.url # "" THEN "url" ELSE IF part.data_base64 THEN "inline" ELSE "none"
    ELSE IF part.data_base64 THEN "inline" ELSE IF part.url # "" THEN "url" ELSE "none"

\* the end of the try of the structured path, src/script.js:321, 706-709
StructSuccess(i, op0) ==
    LET op == [op0 EXCEPT !.pcts = Append(@, 100)] IN
    IF ver = 2 THEN Eff([op EXCEPT !.pc = "espClose"], wlock, writer)
    ELSE Eff(Finished(op, "completed"), wlock, writer)

\* a loop that took the parts from the end of the list
PartStepBackwards(i, op) ==
    IF op.k > Len(op.parts) THEN StructSuccess(i, op)
    ELSE LET part == op.parts[Len(op.parts) + 1 - op.k]
             src == PartSource(part) IN
         IF src = "url"
         THEN Eff([op EXCEPT !.pc = "partFetch", !.addr = part.address], wlock, writer)
         ELSE IF src = "inline"
         THEN Eff([op EXCEPT !.pc = "partFlash", !.addr = part.address,
                             !.data = InlineData(part)], wlock, writer)
         ELSE Fallback(i, op, FALSE)

\* the loop over the parts at part op.k, src/script.js:305-314, 679-698
PartStep(i, op) ==
    IF op.k > Len(op.parts) THEN StructSuccess(i, op)
    ELSE LET part == op.parts[op.k]
             src == PartSource(part) IN
         IF src = "url"
         THEN Eff([op EXCEPT !.pc = "partFetch", !.addr = part.address], wlock, writer)
         ELSE IF src = "inline"
         THEN Eff([op EXCEPT !.pc = "partFlash", !.addr = part.address,
                             !.data = InlineData(part)], wlock, writer)
         ELSE Fallback(i, op, FALSE)

\* parts or single image, src/script.js:304-319, 677-704; reading a field
\* of a null state.manifest throws into the catch of the structured path
WriteImage(i, op) ==
    IF manifest = NULL THEN Fallback(i, op, FALSE)
    ELSE IF manifest.hasParts
    THEN PartStep(i, [op EXCEPT !.parts = manifest.parts, !.k = 1])
    ELSE Eff([op EXCEPT !.pc = "flash", !.addr = flashAddress(manifest), !.data = op.bin],
             wlock, writer)

\* after esploader.main(): revision 2 erases first when the entry asks for
\* it, src/script.js:671-675
AfterMain(i, op) ==
    IF ver = 2 /\ manifest = NULL THEN Fallback(i, op, FALSE)
    ELSE IF ver = 2 /\ manifest.erase
    THEN Eff([op EXCEPT !.pc = "erase"], wlock, writer)
    ELSE WriteImage(i, op)

\* a strategy that never looked for the library
TransferRawOnly(i, op) == RawBegin(i, op, wlock)

\* the transfer strategy, src/script.js:296-302, 327-330 and 660-668, 716-719
Transfer(i, op) ==
    IF hasEsptool
    THEN Eff([op EXCEPT !.pc = "espMain", !.nStruct = @ + 1, !.eport = port], wlock, writer)
    ELSE RawBegin(i, op, wlock)

\* preconditions that forgot the session
DescriptorOnly == IF manifest = NULL THEN TRUE ELSE manifest.url = ""

\* !state.manifest || !state.manifest.url, src/script.js:250, 273, 607, 633
NoUrl(d) == IF d = NULL THEN TRUE ELSE d.url = ""

\* a missing precondition of the install handler, src/script.js:273-275, 633-635
\* (the confirm dialog is an input: see InstallRefused and InstallClick)
PreconditionMissing == IF NoUrl(manifest) THEN TRUE ELSE port = 0

\* an install click that ends at one of the early returns,
\* src/script.js:273-275, 633-635: a missing descriptor or URL, no port, or
\* the user answering no
InstallRefused(declined) ==
    /\ ~installDis
    /\ PreconditionMissing \/ declined
    /\ last' = [NoEvent EXCEPT !.kind = "refused"]
    /\ UNCHANGED <<envVars, selVars, ctlVars, serVars, conn, inst, dl>>

\* an install click that passes the preconditions, up to the await of the
\* image fetch, src/script.js:272-279, 632-641
InstallClick(i) ==
    /\ ~installDis
    /\ FreeInst(i)
    /\ ~PreconditionMissing
    /\ installDis' = TRUE
    /\ downloadDis' = TRUE
    /\ connectDis' = TRUE
    /\ inst' = [inst EXCEPT ![i] = [OpIdle EXCEPT !.pc = "fetch", !.url = manifest.url,
                                                  !.nFetch = 1, !.desc = manifest]]
    /\ UNCHANGED <<envVars, selVars, serVars, conn, dl>>
    /\ last' = [NoEvent EXCEPT !.kind = "confirmed"]

\* the response arrived with a success status, src/script.js:279-285, 641-648
FetchDone(i) ==
    /\ inst[i].pc = "fetch"
    /\ Commit(i, Eff([inst[i] EXCEPT !.pc = "read"], wlock, writer))
    /\ UNCHANGED portOpen

\* the bytes of the body that have not arrived yet
Remaining(op) == ServerImage(op.url).len - ArrLen(concatChunks(op.chunks))

\* rdr.read() delivers the next n bytes of the body, src/script.js:285-288, 648-652
ReadChunk(i, n) ==
    /\ inst[i].pc = "read"
    /\ 0 < n /\ n <= Remaining(inst[i])
    /\ LET got == ArrLen(concatChunks(inst[i].chunks))
           chunk == Slice(Whole(ServerImage(inst[i].url)), got, got + n) IN
       Commit(i, Eff([inst[i] EXCEPT !.chunks = Append(@, chunk)], wlock, writer))
    /\ UNCHANGED portOpen

\* rdr.read() reports done: concatChunks, then the digest is awaited,
\* src/script.js:286-292, 649-656
ReadEnd(i) ==
    /\ inst[i].pc = "read"
    /\ Remaining(inst[i]) = 0
    /\ Commit(i, Eff([inst[i] EXCEPT !.pc = "digest", !.chunks = <<>>,
                                     !.bin = concatChunks(inst[i].chunks)],
                     wlock, writer))
    /\ UNCHANGED portOpen

\* a handler that fetched the image again after a failure
FetchFailRetry(i) ==
    /\ inst[i].pc \in {"fetch", "read", "digest"}
    /\ inst[i].nFetch < 2
    /\ Commit(i, Eff([inst[i] EXCEPT !.pc = "fetch", !.chunks = <<>>, !.nFetch = @ + 1],
                     wlock, writer))
    /\ UNCHANGED portOpen

\* the fetch, a read of the body or the digest rejects, or the status is
\* not a success: the outer catch and the finally, src/script.js:331-336, 721-726
FetchFail(i) ==
    /\ inst[i].pc \in {"fetch", "read", "digest"}
    /\ Commit(i, Eff(Finished(inst[i], "failed"), wlock, writer))
    /\ UNCHANGED portOpen

\* the digest is there: the transfer begins, src/script.js:292-302, 656-668
DigestDone(i) ==
    /\ inst[i].pc = "digest"
    /\ Commit(i, Transfer(i, inst[i]))
    /\ UNCHANGED portOpen

\* esploader.main() resolved, src/script.js:302-304, 668-677
EspMainDone(i) ==
    /\ inst[i].pc = "espMain"
    /\ inst[i].eport \in portOpen
    /\ Commit(i, AfterMain(i, inst[i]))
    /\ UNCHANGED portOpen

\* esploader.eraseFlash() resolved, src/script.js:673-677
EraseDone(i) ==
    /\ inst[i].pc = "erase"
    /\ inst[i].eport \in portOpen
    /\ Commit(i, WriteImage(i, inst[i]))
    /\ UNCHANGED portOpen

\* fetch(part.url) resolved, whatever its status, src/script.js:308, 689-690
PartFetchDone(i) ==
    /\ inst[i].pc = "partFetch"
    /\ Commit(i, Eff([inst[i] EXCEPT !.pc = "partBuf"], wlock, writer))
    /\ UNCHANGED portOpen

\* r.arrayBuffer() resolved: flashData of the part is called,
\* src/script.js:308-312, 690-696
PartBufDone(i) ==
    /\ inst[i].pc = "partBuf"
    /\ LET part == inst[i].parts[inst[i].k] IN
       Commit(i, Eff([inst[i] EXCEPT !.pc = "partFlash",
                                     !.data = Whole(ServerImage(part.url))], wlock, writer))
    /\ UNCHANGED portOpen

\* flashData of part op.k resolved: the next part, src/script.js:312-314, 696-698
PartFlashDone(i) ==
    /\ inst[i].pc = "partFlash"
    /\ inst[i].eport \in portOpen
    /\ LET op == inst[i] IN
       Commit(i, PartStep(i, [op EXCEPT !.k = @ + 1,
                    !.flashed = Append(@, [address |-> op.addr, data |-> op.data])]))
    /\ UNCHANGED portOpen

\* flashData of the whole image resolved, src/script.js:318-321, 703-709
FlashDone(i) ==
    /\ inst[i].pc = "flash"
    /\ inst[i].eport \in portOpen
    /\ LET op == inst[i] IN
       Commit(i, StructSuccess(i, [op EXCEPT
                    !.flashed = Append(@, [address |-> op.addr, data |-> op.data])]))
    /\ UNCHANGED portOpen

\* esploader.transport.close() settled, src/script.js:709: it may have
\* closed the port of the transport, and a rejection is swallowed
EspCloseDone(i, closes) ==
    /\ inst[i].pc = "espClose"
    /\ LET p == inst[i].eport
           shut == closes /\ p \in portOpen IN
       /\ portOpen' = IF shut THEN portOpen \ {p} ELSE portOpen
       /\ Commit(i, Eff(Finished(inst[i], "completed"),
                        IF shut THEN [wlock EXCEPT ![p] = 0] ELSE wlock, writer))

\* an awaited call of the structured path rejects: the catch at
\* src/script.js:322-326, 710-715 starts the raw stream
StructFail(i, locked) ==
    /\ inst[i].pc \in {"espMain", "erase", "partFetch", "partBuf", "partFlash", "flash"}
    /\ Commit(i, Fallback(i, inst[i], locked))
    /\ UNCHANGED portOpen

\* writer.write(slice) resolved: the percent is reported and the pacing
\* sleep begins, src/script.js:347-350, 739-742
RawWriteDone(i) ==
    /\ inst[i].pc = "rawWrite"
    /\ inst[i].w \in portOpen
    /\ wlock[inst[i].w] = i
    /\ LET op == inst[i] IN
       Commit(i, Eff([op EXCEPT !.pc = "rawSleep",
                                !.writes = Append(@, sliceAt(op.bin, op.offset)),
                                !.pcts = Append(@, pctAt(op.bin, op.offset))],
                     wlock, writer))
    /\ UNCHANGED portOpen

\* a handler that closed the port when a write was rejected
RawWriteFailCloses(i) ==
    /\ inst[i].pc = "rawWrite"
    /\ Commit(i, RawEnd(i, inst[i], wlock, "failed"))
    /\ portOpen' = portOpen \ {inst[i].w}

\* writer.write(slice) rejected: finally, rethrow, outer catch,
\* src/script.js:354-355, 331-336 and 746-751, 721-726
RawWriteFail(i) ==
    /\ inst[i].pc = "rawWrite"
    /\ Commit(i, RawEnd(i, inst[i], wlock, "failed"))
    /\ UNCHANGED portOpen

\* sleep(20) is over: the next slice, or the end of the loop,
\* src/script.js:345-353, 737-745
RawSleepDone(i) ==
    /\ inst[i].pc = "rawSleep"
    /\ LET op == [inst[i] EXCEPT !.offset = nextOffset(@)] IN
       Commit(i, IF op.offset < ArrLen(op.bin)
                 THEN Eff(RawIssue(op), wlock, writer)
                 ELSE RawAllWritten(i, op, wlock))
    /\ UNCHANGED portOpen

(***************************************************************************)
(* Download handler: downloadHandler, src/script.js:249-270, 606-629       *)
(***************************************************************************)
\* a download click: without a descriptor URL only an alert,
\* src/script.js:250-254, 607-611
DownloadClick ==
    /\ ~downloadDis
    /\ dl = "idle"
    /\ IF NoUrl(manifest)
       THEN UNCHANGED <<dl, downloadDis>>
       ELSE /\ dl' = "fetch"
            /\ downloadDis' = TRUE
    /\ UNCHANGED <<envVars, selVars, installDis, connectDis, serVars, conn, inst>>
    /\ last' = NoEvent

\* the next await of the download resolves: the response, the blob (then
\* state.manifest.filename is read, which throws on a null descriptor), the
\* buffer, the digest; after the last one the finally runs,
\* src/script.js:254-269, 611-628
DownloadStep ==
    /\ dl \in {"fetch", "blob", "buf", "hash"}
    /\ dl' = CASE dl = "fetch" -> "blob"
               [] dl = "blob" -> IF manifest = NULL THEN "idle" ELSE "buf"
               [] dl = "buf" -> "hash"
               [] dl = "hash" -> "idle"
    /\ downloadDis' = IF dl' = "idle" THEN FALSE ELSE downloadDis
    /\ UNCHANGED <<envVars, selVars, installDis, connectDis, serVars, conn, inst>>
    /\ last' = NoEvent

\* an await of the download rejects or the status is not a success: catch
\* and finally, src/script.js:268-269, 627-628
DownloadFail ==
    /\ dl \in {"fetch", "blob", "buf", "hash"}
    /\ dl' = "idle"
    /\ downloadDis' = FALSE
    /\ UNCHANGED <<envVars, selVars, installDis, connectDis, serVars, conn, inst>>
    /\ last' = NoEvent

(***************************************************************************)
(* Initial states                                                          *)
(***************************************************************************)
\* nothing connected, no handler running
Quiet ==
    /\ sim = SimStart
    /\ connectDis = FALSE
    /\ port = 0
    /\ reader = 0
    /\ writer = 0
    /\ connected = FALSE
    /\ portOpen = {}
    /\ wlock = [p \in Ports |-> 0]
    /\ rloop = {}
    /\ conn = [c \in 1..MaxConnects |-> ConnIdle]
    /\ inst = [i \in 1..MaxInstalls |-> OpIdle]
    /\ dl = "idle"
    /\ last = NoEvent

\* the page after its script ran: renderOptions / renderAll picked the first
\* option of every group, the onSelectionChanged that call made is suspended
\* in loadManifest, and so is init, src/script.js:156-160, 380-387 and
\* 495-497, 766-770.  The page markup is not part of the sources: the
\* install and download buttons start enabled or disabled.
Loading ==
    /\ program = defaultPrograms[1]
    /\ chip = defaultChips[1]
    /\ oled = defaultOleds[1]
    /\ manifestMap = NULL
    /\ manifest = NULL
    /\ pending = <<[key |-> MakeKey(ver, program, chip, oled), sel |-> <<program, chip, oled>>]>>
    /\ initLoad = TRUE
    /\ installDis \in BOOLEAN
    /\ downloadDis \in BOOLEAN

\* the page once both loads of the manifest succeeded
LoadedAt(p, c, o) ==
    /\ program = p
    /\ chip = c
    /\ oled = o
    /\ manifestMap = server
    /\ manifest = Lookup(server, MakeKey(ver, program, chip, oled))
    /\ pending = <<>>
    /\ initLoad = FALSE
    /\ installDis = (manifest = NULL)
    /\ downloadDis = (manifest = NULL)

Loaded == LoadedAt(defaultPrograms[1], defaultChips[1], defaultOleds[1])

\* a session is live on port 1 and its read loop runs: what connectSerial
\* leaves behind, src/script.js:197-219, 541-575
Connected ==
    /\ sim = SimStart
    /\ port = 1
    /\ reader = 1
    /\ writer = 0
    /\ connected = TRUE
    /\ portOpen = {1}
    /\ wlock = [p \in Ports |-> 0]
    /\ rloop = {1}
    /\ conn = [c \in 1..MaxConnects |-> ConnIdle]
    /\ connectDis = FALSE
    /\ inst = [i \in 1..MaxInstalls |-> OpIdle]
    /\ dl = "idle"
    /\ last = NoEvent

\* firmware images of two chunks, of no byte and of exactly one chunk
SmallFw ==
    ("fw-a.bin" :> Image(CHUNK_SIZE + 3616, 3)) @@ ("fw-b.bin" :> Image(0, 0))
    @@ ("fw-c.bin" :> Image(CHUNK_SIZE, 11))

\* the sizes in which the body of a response may arrive
ArrivalSizes(rem) == {rem, CHUNK_SIZE}

(***************************************************************************)
(* Next-state relations, over the install handlers I, the connect handlers *)
(* C, the ports P of the prompt and the options O the user clicks          *)
(***************************************************************************)
OptionSteps(O) == \E o \in O : OptionClick(o[1], o[2])

LoadSteps ==
    \/ \E k \in 1..MaxPending, ok \in BOOLEAN : PendingLoadDone(k, ok)
    \/ \E ok \in BOOLEAN : InitLoadDone(ok)

SerialSteps(C, P) ==
    \/ \E c \in C : ConnectClick(c)
    \/ \E c \in C, p \in P : PromptPick(c, p)
    \/ \E c \in C : OpenFail(c)
    \/ \E c \in C, sig \in BOOLEAN : OpenDone(c, sig)
    \/ \E c \in C, ok \in BOOLEAN : SignalsDone(c, ok)
    \/ \E c \in C, ok \in BOOLEAN : CancelDone(c, ok)
    \/ \E c \in C, ok \in BOOLEAN : WCloseDone(c, ok)
    \/ \E c \in C, ok \in BOOLEAN : PCloseDone(c, ok)
    \/ \E p \in P : ReadLoopEnd(p)

ClickSteps(I) ==
    \/ \E declined \in BOOLEAN : InstallRefused(declined)
    \/ \E i \in I : InstallClick(i)

ReadSteps(I) ==
    \/ \E i \in I : FetchDone(i)
    \/ \E i \in I : \E n \in ArrivalSizes(Remaining(inst[i])) : ReadChunk(i, n)
    \/ \E i \in I : ReadEnd(i)
    \/ \E i \in I : FetchFail(i)
    \/ \E i \in I : DigestDone(i)

StructSteps(I) ==
    \/ \E i \in I : EspMainDone(i)
    \/ \E i \in I : EraseDone(i)
    \/ \E i \in I : PartFetchDone(i)
    \/ \E i \in I : PartBufDone(i)
    \/ \E i \in I : PartFlashDone(i)
    \/ \E i \in I : FlashDone(i)
    \/ \E i \in I, closes \in BOOLEAN : EspCloseDone(i, closes)
    \/ \E i \in I, locked \in BOOLEAN : StructFail(i, locked)

RawSteps(I) ==
    \/ \E i \in I : RawWriteDone(i)
    \/ \E i \in I : RawWriteFail(i)
    \/ \E i \in I : RawSleepDone(i)

FetchSteps(I) == ClickSteps(I) \/ ReadSteps(I)

InstallSteps(I) == FetchSteps(I) \/ StructSteps(I) \/ RawSteps(I)

\* an await of install handler i settles, resolved or rejected
Settles(i) == ReadSteps({i}) \/ StructSteps({i}) \/ RawSteps({i})

DownloadSteps == DownloadClick \/ DownloadStep \/ DownloadFail

(***************************************************************************)
(* Spec: the provisioning pipeline.  The manifest is loaded and a session  *)
(* is live; the user clicks options and the install button, with or        *)
(* without the bootloader library on the page.                             *)
(***************************************************************************)
ClickOptions ==
    {<<"program", defaultPrograms[1]>>, <<"program", defaultPrograms[2]>>,
     <<"chip", defaultChips[1]>>, <<"chip", defaultChips[2]>>}

Init ==
    /\ ver \in {1, 2}
    /\ hasEsptool \in BOOLEAN
    /\ server = ManifestA
    /\ fw = SmallFw
    /\ Loaded
    /\ Connected

Next ==
    \/ OptionSteps(ClickOptions)
    \/ InstallSteps(1..MaxInstalls)

Spec == Init /\ [][Next]_vars

(***************************************************************************)
(* SpecLive: the provisioning pipeline when every await of every install   *)
(* handler settles sooner or later; the user moves on to the second        *)
(* program and the second chip.                                            *)
(***************************************************************************)
LiveOptions == {<<"program", defaultPrograms[2]>>, <<"chip", defaultChips[2]>>}

NextLive ==
    \/ OptionSteps(LiveOptions)
    \/ InstallSteps(1..MaxInstalls)

SpecLive == Init /\ [][NextLive]_vars /\ \A i \in 1..MaxInstalls : WF_vars(Settles(i))

(***************************************************************************)
(* SpecSerial: the connect button.  Nothing is connected at first; the     *)
(* user clicks connect while earlier clicks are still being handled, picks *)
(* any port in the prompt, and installs the first selection on a page      *)
(* without the bootloader library.                                         *)
(***************************************************************************)
InitSerial ==
    /\ ver \in {1, 2}
    /\ hasEsptool = FALSE
    /\ server = ManifestA
    /\ fw = SmallFw
    /\ Loaded
    /\ Quiet

NextSerial ==
    \/ SerialSteps(1..MaxConnects, Ports)
    \/ FetchSteps({1})
    \/ RawSteps({1})

SpecSerial == InitSerial /\ [][NextSerial]_vars

(***************************************************************************)
(* SpecClose: the connect button of one port, and disconnectSerial called  *)
(* at any moment, on an open session and on a closed one.                  *)
(***************************************************************************)
NextClose ==
    \/ SerialSteps(1..MaxConnects, {1})
    \/ \E c \in 1..MaxConnects : disconnectSerial(c)
    \/ FetchSteps({1})
    \/ RawSteps({1})

SpecClose == InitSerial /\ [][NextClose]_vars

(***************************************************************************)
(* SpecRaw: raw streaming on a page without the bootloader library, with   *)
(* option clicks, the connect button of one port and the install button.   *)
(***************************************************************************)
InitRaw ==
    /\ ver \in {1, 2}
    /\ hasEsptool = FALSE
    /\ server = ManifestA
    /\ fw = SmallFw
    /\ Loaded
    /\ Quiet

RawOptions == {<<"program", defaultPrograms[1]>>, <<"chip", defaultChips[2]>>}

NextRaw ==
    \/ OptionSteps(RawOptions)
    \/ SerialSteps({1}, {1})
    \/ FetchSteps(1..MaxInstalls)
    \/ RawSteps(1..MaxInstalls)

SpecRaw == InitRaw /\ [][NextRaw]_vars

(***************************************************************************)
(* SpecDl: the download button next to the install button, with or without *)
(* a live session.                                                         *)
(***************************************************************************)
InitDl ==
    /\ ver \in {1, 2}
    /\ hasEsptool \in BOOLEAN
    /\ server = ManifestA
    /\ fw = SmallFw
    /\ Loaded
    /\ (Quiet \/ Connected)

DlOptions == ClickOptions \cup {<<"oled", defaultOleds[1]>>, <<"oled", defaultOleds[3]>>}

NextDl ==
    \/ OptionSteps(DlOptions)
    \/ DownloadSteps
    \/ InstallSteps({1})

SpecDl == InitDl /\ [][NextDl]_vars

(***************************************************************************)
(* SpecXfer: one install at a time, of images of many lengths: none, one   *)
(* byte, a byte less and a byte more than a chunk, whole chunks, and       *)
(* chunks with a remainder (two chunks and 7232 bytes are 40000 bytes).    *)
(***************************************************************************)
XferSizes ==
    {0, 1, CHUNK_SIZE - 1, CHUNK_SIZE + 1}
    \cup {k * CHUNK_SIZE : k \in 1..MaxChunks}
    \cup {k * CHUNK_SIZE + 7232 : k \in 1..MaxChunks}

InitXfer ==
    /\ ver \in {1, 2}
    /\ hasEsptool \in BOOLEAN
    /\ server = ManifestA
    /\ \E n \in XferSizes : fw = [u \in FwUrls |-> Image(n, 3)]
    /\ Loaded
    /\ Connected

NextXfer ==
    \/ OptionSteps(ClickOptions)
    \/ InstallSteps({1})

SpecXfer == InitXfer /\ [][NextXfer]_vars

(***************************************************************************)
(* SpecResolve: the selection.  The page has just been loaded or the       *)
(* manifest is there already; the server publishes one of three manifests  *)
(* or fails; the user clicks any option of any group.                      *)
(***************************************************************************)
AllOptions ==
    {<<"program", id>> : id \in Range(defaultPrograms)}
    \cup {<<"chip", id>> : id \in Range(defaultChips)}
    \cup {<<"oled", id>> : id \in Range(defaultOleds)}

InitResolve ==
    /\ ver \in {1, 2}
    /\ hasEsptool = FALSE
    /\ server \in {ManifestA, ManifestB, EmptyMap}
    /\ fw = SmallFw
    /\ (Loading \/ Loaded)
    /\ Quiet

NextResolve ==
    \/ OptionSteps(AllOptions)
    \/ LoadSteps

SpecResolve == InitResolve /\ [][NextResolve]_vars

(***************************************************************************)
(* SpecSim: the page of the simulated installer; the page of script.js is  *)
(* left alone.  SpecSimLive adds that a timer that is due fires.           *)
(***************************************************************************)
InitSim ==
    /\ ver = 1
    /\ hasEsptool = FALSE
    /\ server = EmptyMap
    /\ fw = SmallFw
    /\ Loaded
    /\ Quiet

NextSim ==
    \/ \E id \in SimPrograms : SimSelect("program", id)
    \/ \E id \in SimChips : SimSelect("chip", id)
    \/ \E id \in SimOleds : SimSelect("oled", id)
    \/ handleInstall
    \/ \E k \in 1..MaxSimRuns : SimTick(k)
    \/ \E k \in 1..MaxSimRuns : SimTimeout(k)
    \/ SimDownload

SpecSim == InitSim /\ [][NextSim]_vars

SpecSimLive ==
    /\ InitSim
    /\ [][NextSim]_vars
    /\ WF_vars(\E k \in 1..MaxSimRuns : SimTick(k))
    /\ WF_vars(\E k \in 1..MaxSimRuns : SimTimeout(k))

(***************************************************************************)
(* Properties                                                              *)
(***************************************************************************)
\* the awaits of the structured path and of the raw stream
StructPcs == {"espMain", "erase", "partFetch", "partBuf", "partFlash", "flash", "espClose"}

RawPcs == {"rawWrite", "rawSleep"}

\* the install handlers that run, and the one that just ended
Ops == {inst[i] : i \in 1..MaxInstalls} \cup {last.op}

\* C1: per install operation the image is fetched once, the structured path
\* is entered at most once and the raw stream is started at most once; the
\* raw stream sends the image that was fetched; an operation whose
\* structured path threw started the raw stream once, and it ends there,
\* completed or failed, with no further attempt.
C1_FallbackOnce ==
    \A op \in Ops :
        /\ op.nFetch <= 1 /\ op.nStruct <= 1 /\ op.nRaw <= 1
        /\ (op.pc \in StructPcs) => (op.nStruct = 1 /\ op.nRaw = 0)
        /\ (op.pc \in RawPcs) =>
               (op.nRaw = 1 /\ op.nFetch = 1 /\ op.bin = Whole(ServerImage(op.url)))
        /\ (op.nRaw = 1 /\ hasEsptool) => (op.nStruct = 1)
        /\ (op.result = "failed" /\ op.nStruct = 1) => (op.nRaw = 1)
        /\ (op.result = "completed" /\ op.nStruct = 1 /\ op.nRaw = 0) =>
               (op.pcts = <<100>>)

\* the structured path threw and the raw stream that followed failed too
W_C1 ==
    /\ last.kind = "failed"
    /\ last.op.nStruct = 1
    /\ last.op.nRaw = 1
    /\ last.op.nFetch = 1
    /\ last.op.writes # <<>>

\* C2: an install click with a precondition missing (no descriptor or no
\* URL in it, no port in state.port, or the confirmation declined) changes
\* nothing: no handler starts, so no image is fetched and no byte is
\* written, the session and the selection stay as they were, and the three
\* controls stay as they were, the install control enabled.  A handler only
\* starts with a descriptor URL and a port.
C2_RefusedChangesNothing ==
    [][/\ (last'.kind = "refused") =>
             /\ inst' = inst
             /\ serVars' = serVars
             /\ conn' = conn
             /\ selVars' = selVars
             /\ dl' = dl
             /\ ctlVars' = ctlVars
             /\ ~installDis'
       /\ \A i \in 1..MaxInstalls :
             (inst[i].pc = "idle" /\ inst'[i].pc # "idle") =>
                 (~NoUrl(manifest) /\ port # 0 /\ inst'[i].nFetch = 1)]_vars

\* a click without a session was refused while a download was under way
W_C2 ==
    /\ last.kind = "refused"
    /\ port = 0
    /\ ~NoUrl(manifest)
    /\ dl # "idle"

\* C2 as it is worded: after a refused click the three controls are enabled
C2_ControlsEnabledAfterRefusal ==
    (last.kind = "refused") => (~installDis /\ ~downloadDis /\ ~connectDis)

\* the install handlers suspended in an await
Running == {i \in 1..MaxInstalls : inst[i].pc # "idle"}

\* C3: at most one install operation is in flight at any time: between the
\* moment an install passed its preconditions and the moment it completed
\* or failed no second install starts, whatever the user selects meanwhile.
C3_OneInstallInFlight == Cardinality(Running) <= 1

\* C4: at most one transport session is live: never more than one port is
\* open, and an open port is the one recorded in state.port.
C4_OneSession ==
    /\ Cardinality(portOpen) <= 1
    /\ \A p \in portOpen : port = p

\* the install handlers inside the try block of fallbackRawStream
Streaming == {i \in 1..MaxInstalls : inst[i].w # 0}

\* C5: the writer taken by fallbackRawStream is released on every way out:
\* a lock on a writable belongs to a handler that is inside
\* fallbackRawStream on that port, state.writer is only set while a handler
\* is inside fallbackRawStream, a handler that left it (returned or threw)
\* holds no lock and state.writer is not its writer any more, and no two
\* handlers are inside it with a writer at the same time.
C5_WriterReleased ==
    /\ \A p \in Ports :
          (wlock[p] \in 1..MaxInstalls) =>
              (inst[wlock[p]].w = p /\ inst[wlock[p]].pc \in RawPcs)
    /\ \A i \in 1..MaxInstalls : (inst[i].w # 0) <=> (inst[i].pc \in RawPcs)
    /\ (writer # 0) => (writer \in Streaming)
    /\ (last.kind \in {"completed", "failed"} /\ last.op.nRaw = 1) =>
          (last.op.w = 0 /\ writer # last.i /\ \A p \in Ports : wlock[p] # last.i)
    /\ Cardinality(Streaming) <= 1

\* C6: every install handler that passed its preconditions comes to its end,
\* completed or failed, and at that moment the install, download and connect
\* controls are enabled, provided every await it is suspended in settles.
C6_ControlsReenabled ==
    \A i \in 1..MaxInstalls :
        (inst[i].pc # "idle") ~>
            (/\ last.i = i
             /\ last.kind \in {"completed", "failed"}
             /\ ~installDis /\ ~downloadDis /\ ~connectDis)

\* the digest or the fetch of an install failed before any transfer began,
\* and the controls are enabled again
W_C6 ==
    /\ last.kind = "failed"
    /\ last.op.nStruct = 0
    /\ last.op.nRaw = 0
    /\ ~installDis /\ ~downloadDis /\ ~connectDis

\* the sizes of the slices a handler wrote
Sizes(ws) == [k \in DOMAIN ws |-> ArrLen(ws[k])]

\* C7: the slices fallbackRawStream writes are never empty, all but the last
\* have CHUNK_SIZE bytes, put together in the order written they are the
\* beginning of the image that was fetched, and once the transfer completed
\* they are the image byte for byte, whatever its length.
C7_ChunkingExhaustive ==
    \A op \in Ops :
        (op.url # "") =>
            LET ws == op.writes
                sent == concatChunks(ws)
                img == Whole(ServerImage(op.url)) IN
            /\ \A k \in DOMAIN ws :
                  /\ ArrLen(ws[k]) > 0
                  /\ (k < Len(ws)) => (ArrLen(ws[k]) = CHUNK_SIZE)
            /\ sent = Slice(img, 0, ArrLen(sent))
            /\ (op.result = "completed" /\ op.nRaw = 1) => (Bytes(sent) = Bytes(img))

\* a raw transfer of several chunks and a remainder completed
W_C7 ==
    /\ last.kind = "completed"
    /\ last.op.nRaw = 1
    /\ Len(last.op.writes) > 2
    /\ ArrLen(last.op.writes[Len(last.op.writes)]) < CHUNK_SIZE

\* the raw transfer of a 40000-byte image completed
Sent40000 ==
    /\ last.kind = "completed"
    /\ last.op.nRaw = 1
    /\ ArrLen(last.op.bin) = 40000

\* C8: the raw transfer of a 40000-byte image makes three writes, of 16384,
\* 16384 and 7232 bytes in that order, and the percents reported after them
\* are 41, 82 and 100 (Math.round of 40.96 and of 81.92).
C8_Sizes40000 ==
    Sent40000 =>
        /\ Sizes(last.op.writes) = <<16384, 16384, 7232>>
        /\ SubSeq(last.op.pcts, 1, 3) = <<41, 82, 100>>

W_C8 == Sent40000 /\ Len(last.op.writes) = 3 /\ last.op.pcts[1] = 41

\* C8 as it is worded: the percents after the three writes are 40, 81, 100
C8_Percents_40_81_100 ==
    Sent40000 =>
        /\ Sizes(last.op.writes) = <<16384, 16384, 7232>>
        /\ SubSeq(last.op.pcts, 1, 3) = <<40, 81, 100>>

\* C9: the percents a transfer reports never go down, and a transfer that
\* completed reported 100 last: the raw stream for every image length, none
\* included, and the structured path when it succeeds.
C9_PercentMonotone ==
    \A op \in Ops :
        /\ \A k \in 1..(Len(op.pcts) - 1) : op.pcts[k] <= op.pcts[k + 1]
        /\ \A k \in DOMAIN op.pcts : 0 <= op.pcts[k] /\ op.pcts[k] <= 100
        /\ (op.result = "completed") =>
              (op.pcts # <<>> /\ op.pcts[Len(op.pcts)] = 100)

\* a raw transfer of more than one slice completed, with a percent below
\* 100 on the way
W_C9 ==
    /\ last.kind = "completed"
    /\ last.op.nRaw = 1
    /\ Len(last.op.pcts) > 2
    /\ last.op.pcts[1] < 100

\* the manifest's name of a program, and the key of a selection
CanonicalVariant(p) ==
    IF p = "chatbot" THEN "ChatBotAI" ELSE IF p = "mochinav" THEN "MochiNav" ELSE p

CanonicalKey(sel) == CanonicalVariant(sel[1]) \o "|" \o sel[2] \o "|" \o sel[3]

\* the entry a manifest holds for a selection, NULL when it holds none
Expected(map, sel) ==
    IF CanonicalKey(sel) \in DOMAIN map THEN map[CanonicalKey(sel)] ELSE NULL

\* C10: a resolution is exact.  An option click with the manifest loaded
\* makes state.manifest the entry stored under the canonical key of the new
\* selection, and null when the manifest has no such key; a resolution that
\* waited for the manifest does the same for the selection it was started
\* for.  No step throws.
C10_ResolutionExact ==
    [][/\ (manifestMap # NULL /\ manifestMap' = manifestMap /\ initLoad' = initLoad
                               /\ pending' = pending) =>
             (manifest' = Expected(manifestMap, <<program', chip', oled'>>))
       /\ (Len(pending') < Len(pending)) =>
             (\E k \in DOMAIN pending : manifest' = Expected(manifestMap', pending[k].sel))]_vars

\* the selection (chatbot, ESP32-S3-M16R8, OLED-1.3) was clicked together and
\* resolved to the entry the manifest holds for it
W_C10 ==
    /\ program = "chatbot"
    /\ chip = defaultChips[1]
    /\ oled = defaultOleds[3]
    /\ manifestMap = ManifestA
    /\ manifest = DNoUrl
    /\ pending = <<>>

\* C11: whenever no descriptor is resolved (state.manifest is null) the
\* install and the download control are disabled, also after a download or
\* an install came to its end.
C11_AbsentDisables == (manifest = NULL) => (installDis /\ downloadDis)

\* C12: an install that ends failed leaves the session as it is: no step of
\* an install handler other than the one that completes it changes
\* state.port, the connection status or which ports are open, the step that
\* ends it failed included.
C12_FailedLeavesSession ==
    [][((inst' # inst \/ last'.kind = "failed") /\ last'.kind # "completed") =>
          (port' = port /\ portOpen' = portOpen /\ connected' = connected
           /\ reader' = reader)]_vars

\* the structured path threw, the raw stream could not write its first
\* slice, and the session is still there
W_C12 ==
    /\ last.kind = "failed"
    /\ last.op.nStruct = 1
    /\ last.op.nRaw = 1
    /\ last.op.writes = <<>>
    /\ port = 1
    /\ port \in portOpen
    /\ connected

\* the awaits of disconnectSerial
DiscPcs == {"dCancel", "dWClose", "dPClose"}

\* C13: when disconnectSerial comes to its end the session is reset on
\* every path, a teardown step that throws included: state.port,
\* state.reader and state.writer are null, and the port that was in
\* state.port is closed and its read loop is over.
C13_CloseResetsSession ==
    [][\A c \in 1..MaxConnects :
          (conn[c].pc \in DiscPcs /\ conn'[c].pc = "idle") =>
              /\ port' = 0
              /\ reader' = 0
              /\ writer' = 0
              /\ (port # 0) => (port \notin portOpen' /\ port \notin rloop')]_vars

\* C14: close is idempotent.  disconnectSerial called with state.port null
\* changes nothing and issues no cancel and no close; no disconnectSerial
\* gets to an await with state.port null at its call; and every
\* disconnectSerial ends with state.port null, so that a second call right
\* after it is that no-op and leaves the state of the first.
C14_CloseIdempotent ==
    [][/\ (last'.kind = "closeNoop") =>
             (port = 0 /\ serVars' = serVars /\ conn' = conn /\ ctlVars' = ctlVars
              /\ inst' = inst /\ selVars' = selVars)
       /\ \A c \in 1..MaxConnects :
             /\ (conn[c].pc = "idle" /\ conn'[c].pc \in DiscPcs) => (port # 0)
             /\ (conn[c].pc \in DiscPcs /\ conn'[c].pc = "idle") => (port' = 0)]_vars

\* disconnectSerial was called on a session whose earlier close had failed:
\* state.port is null, the reader is still set and the port still open
W_C14 ==
    /\ last.kind = "closeNoop"
    /\ port = 0
    /\ reader # 0
    /\ portOpen # {}

\* C15: the transfer strategy.  When the digest is there, with ESPLoader and
\* ESPTransport available the handler enters the structured path and has not
\* started the raw stream; without them it starts the raw stream and has not
\* entered the structured path.  The raw stream of an operation only starts
\* at that moment without the library, or out of the structured path with
\* it; without the library no operation is ever in the structured path.
C15_StrategySelection ==
    [][\A i \in 1..MaxInstalls :
         LET after == IF inst'[i].pc = "idle" /\ last'.i = i THEN last'.op ELSE inst'[i] IN
         /\ (inst[i].pc = "digest" /\ inst'[i] # inst[i] /\ after.nFetch = 1
               /\ ~(after.result = "failed" /\ after.nRaw = 0 /\ after.nStruct = 0)) =>
                IF hasEsptool
                THEN after.pc = "espMain" /\ after.nStruct = 1 /\ after.nRaw = 0
                ELSE after.nRaw = 1 /\ after.nStruct = 0 /\ after.pc \in RawPcs \cup {"idle"}
         /\ (inst[i].pc # "idle" /\ after.nRaw = inst[i].nRaw + 1) =>
                IF hasEsptool
                THEN inst[i].pc \in StructPcs /\ inst[i].nStruct = 1
                ELSE inst[i].pc = "digest"
         /\ (~hasEsptool) => (after.pc \notin StructPcs /\ after.nStruct = 0)]_vars

\* with the library, an operation whose structured path threw completed
\* through the raw stream
W_C15 ==
    /\ hasEsptool
    /\ last.kind = "completed"
    /\ last.op.nStruct = 1
    /\ last.op.nRaw = 1
    /\ last.op.writes # <<>>

\* C16: a failed image fetch is fatal for the operation.  A handler that
\* leaves the fetch or the reading of the body without the whole image ends
\* there as failed: it wrote no byte to the port, entered neither the
\* structured path nor the raw stream, fetched once, and its slot is idle
\* again; and no handler goes back from reading to fetching.
C16_FetchFailureFatal ==
    [][\A i \in 1..MaxInstalls :
         /\ (inst[i].pc \in {"fetch", "read"} /\ inst'[i].pc \notin {"fetch", "read", "digest"}) =>
                /\ inst'[i] = OpIdle
                /\ last'.kind = "failed" /\ last'.i = i
                /\ last'.op.writes = <<>> /\ last'.op.flashed = <<>>
                /\ last'.op.nStruct = 0 /\ last'.op.nRaw = 0
                /\ last'.op.nFetch = 1
                /\ wlock' = wlock /\ writer' = writer /\ portOpen' = portOpen
         /\ (inst[i].pc \in {"read", "digest"}) => (inst'[i].pc # "fetch")
         /\ (inst[i].pc # "idle") => (inst'[i].nFetch <= 1)]_vars

\* the body broke off after a chunk had arrived
W_C16 ==
    /\ last.kind = "failed"
    /\ last.op.chunks # <<>>
    /\ last.op.nFetch = 1
    /\ last.op.nStruct = 0
    /\ last.op.nRaw = 0
    /\ last.op.writes = <<>>

\* C17: no teardown without a confirmation: a step of the connect button
\* that starts disconnectSerial on a session is a step in which confirm()
\* was asked and answered yes.
C17_TeardownConfirmed ==
    [][\A c \in 1..MaxConnects :
         (conn[c].pc = "idle" /\ conn'[c].pc \in DiscPcs) =>
             (last'.kind = "confirmed")]_vars

\* C18: a failed load of the manifest degrades to the empty manifest.  The
\* step in which a load fails leaves manifestMap the empty mapping, and the
\* onSelectionChanged that waited for it goes on and resolves to nothing,
\* install and download disabled; and every selection made while
\* manifestMap is the empty mapping resolves to nothing, install and
\* download disabled.
C18_LoadFailureEmpty ==
    [][/\ (last'.kind = "loadFailed") =>
             /\ manifestMap' = EmptyMap
             /\ (Len(pending') < Len(pending)) =>
                    (manifest' = NULL /\ installDis' /\ downloadDis')
       /\ (manifestMap = EmptyMap /\ manifestMap' = manifestMap /\ initLoad' = initLoad
              /\ pending' = pending /\ program' # "" /\ chip' # "" /\ oled' # "") =>
             (manifest' = NULL /\ installDis' /\ downloadDis')]_vars

\* the server publishes a manifest, the load failed, and a later selection
\* found nothing
W_C18 ==
    /\ server = ManifestA
    /\ manifestMap = EmptyMap
    /\ program = "chatbot"
    /\ chip = defaultChips[1]
    /\ oled = defaultOleds[1]
    /\ pending = <<>>
    /\ ~initLoad
    /\ manifest = NULL
    /\ installDis
    /\ downloadDis

\* C19: the mapping from the program ids of the page to the names of the
\* manifest is a bijection onto MochiNav and ChatBotAI: two different ids
\* never give the same name, so the keys of two selections that differ in
\* the program differ, those of the resolutions that wait for the manifest
\* included.
C19_VariantBijection ==
    /\ \A p \in Range(defaultPrograms), q \in Range(defaultPrograms) :
          (p # q) => (progKey(ver, p) # progKey(ver, q))
    /\ {progKey(ver, p) : p \in Range(defaultPrograms)} = {"MochiNav", "ChatBotAI"}
    /\ \A p \in Range(defaultPrograms), q \in Range(defaultPrograms) :
          \A c \in Range(defaultChips), d \in Range(defaultChips) :
             \A o \in Range(defaultOleds), n \in Range(defaultOleds) :
                (p # q) => (MakeKey(ver, p, c, o) # MakeKey(ver, q, d, n))
    /\ \A j \in DOMAIN pending, k \in DOMAIN pending :
          (pending[j].sel[1] # pending[k].sel[1]) => (pending[j].key # pending[k].key)

\* two resolutions wait for the manifest, one for each program, the rest of
\* the selection the same
W_C19 ==
    /\ Len(pending) = 2
    /\ pending[1].sel[1] # pending[2].sel[1]
    /\ pending[1].sel[2] = pending[2].sel[2]
    /\ pending[1].sel[3] = pending[2].sel[3]

FetchPcs == {"fetch", "read", "digest"}

\* C20: the pipeline runs fetching, then verifying, then transferring.  A
\* handler that fetches, reads or awaits the digest has written no byte,
\* flashed nothing and entered neither transfer path; the buffer that goes
\* to the digest is the chunks in the order of their arrival, which is the
\* whole image of the server; a transfer path is only entered by the step
\* that receives the digest; and the digest is asked for once: a handler
\* comes to it from reading only, and never returns to fetching, reading or
\* the digest afterwards.
C20_PipelineOrder ==
    [][\A i \in 1..MaxInstalls :
         LET after == IF inst'[i].pc = "idle" /\ last'.i = i THEN last'.op ELSE inst'[i] IN
         /\ (inst'[i].pc \in FetchPcs) =>
                /\ inst'[i].writes = <<>> /\ inst'[i].flashed = <<>>
                /\ inst'[i].nStruct = 0 /\ inst'[i].nRaw = 0
         /\ (inst[i].pc # "digest" /\ inst'[i].pc = "digest") =>
                /\ inst[i].pc = "read"
                /\ inst'[i].bin = concatChunks(inst[i].chunks)
                /\ inst'[i].bin = Whole(ServerImage(inst[i].url))
         /\ (inst[i].pc # "idle" /\ inst[i].nStruct + inst[i].nRaw = 0
               /\ after.nStruct + after.nRaw > 0) =>
                (inst[i].pc = "digest" /\ after.bin = Whole(ServerImage(inst[i].url)))
         /\ (inst[i].pc # "idle" /\ inst[i].pc \notin FetchPcs) =>
                (inst'[i].pc \notin FetchPcs)
         /\ (inst[i].pc = "digest") => (inst'[i].pc # "read" /\ inst'[i].pc # "fetch")
         /\ (after.writes # <<>> \/ after.flashed # <<>>) =>
                (after.nStruct + after.nRaw > 0)]_vars

\* an image that arrived in two chunks was put together and streamed
W_C20 ==
    /\ last.kind = "completed"
    /\ last.op.nRaw = 1
    /\ Len(last.op.writes) = 2
    /\ last.op.bin = Whole(ServerImage(last.op.url))
    /\ last.op.nFetch = 1

PartPcs == {"partFetch", "partBuf", "partFlash"}

\* the bytes flashData is given for a part
PartData(part) ==
    IF PartSource(part) = "url" THEN Whole(ServerImage(part.url)) ELSE InlineData(part)

\* C21: the parts of a descriptor are flashed one at a time in the order of
\* its list.  While handler i is in the loop at part k, the parts flashed so
\* far are parts 1..k-1 of the list, each at its own address with its own
\* bytes; k moves by one and only when the flashData of part k resolved,
\* which adds exactly that part; and once the structured path has failed
\* (the raw stream was started) nothing more is flashed.
C21_PartsInOrder ==
    [][\A i \in 1..MaxInstalls :
         LET op == inst[i]
             after == IF inst'[i].pc = "idle" /\ last'.i = i THEN last'.op ELSE inst'[i] IN
         /\ (after.pc \in PartPcs) =>
                /\ after.k \in 1..Len(after.parts)
                /\ Len(after.flashed) = after.k - 1
                /\ \A j \in 1..Len(after.flashed) :
                      /\ after.flashed[j].address = after.parts[j].address
                      /\ after.flashed[j].data = PartData(after.parts[j])
         /\ (op.pc \in PartPcs /\ after.flashed # op.flashed) =>
                /\ op.pc = "partFlash"
                /\ after.flashed = Append(op.flashed,
                        [address |-> op.parts[op.k].address, data |-> PartData(op.parts[op.k])])
         /\ (op.pc \in PartPcs /\ after.pc \in PartPcs /\ after.k # op.k) =>
                (op.pc = "partFlash" /\ after.k = op.k + 1)
         /\ (op.pc # "idle" /\ after.nRaw > 0) => (after.flashed = op.flashed)]_vars

\* the first two parts of three were flashed, the third failed, and the
\* raw stream that followed ended
W_C21 ==
    /\ last.kind \in {"completed", "failed"}
    /\ last.op.desc = DParts
    /\ Len(last.op.flashed) = 2
    /\ last.op.flashed[1].address = 4096
    /\ last.op.flashed[2].address = 32768
    /\ last.op.nRaw = 1

\* C22: a single image is flashed to the address of the descriptor whenever
\* the descriptor has one, address 0 included, and to 0x10000 only when it
\* has none: the step that calls flashData for the whole image gives it the
\* image that was fetched and that address.
C22_FlashAddress ==
    [][\A i \in 1..MaxInstalls :
         (inst[i].pc # "flash" /\ inst'[i].pc = "flash") =>
             /\ manifest # NULL
             /\ inst'[i].data = inst[i].bin
             /\ inst'[i].addr = IF manifest.address # ABSENT THEN manifest.address
                                ELSE DEFAULT_FLASH_ADDRESS]_vars

\* C23: the end of the read loop never aborts the session.  A step in which
\* a read loop ends and no disconnectSerial moves leaves state.port,
\* state.writer, state.reader, the status and the open ports as they were,
\* and the handlers and controls too; and state.port only goes from a port
\* to null in a step of disconnectSerial.
C23_ReadLoopEndKeepsSession ==
    [][/\ (rloop' # rloop /\ rloop' \subseteq rloop /\ conn' = conn) =>
             /\ port' = port /\ writer' = writer /\ reader' = reader
             /\ connected' = connected /\ portOpen' = portOpen /\ wlock' = wlock
             /\ inst' = inst /\ ctlVars' = ctlVars
       /\ ((port # 0 /\ port' = 0) \/ (connected /\ ~connected')) =>
             \E c \in 1..MaxConnects :
                 conn'[c] # conn[c] /\ (conn[c].pc \in DiscPcs \/ conn'[c].pc \in DiscPcs)]_vars

\* the read loop of the live session has ended and the session is still
\* there
W_C23 ==
    /\ port # 0
    /\ port \in portOpen
    /\ connected
    /\ reader = port
    /\ port \notin rloop
    /\ \A c \in 1..MaxConnects : conn[c].pc = "idle"

\* C24: a failure of the control-line toggle does not abort the open.  The
\* open leaves state.port set and the status Connected and starts no read
\* loop before the toggle; the step that ends the toggle, finished or
\* thrown, changes neither state.port nor the status nor the open ports and
\* starts the read loop of the port, whose reader becomes state.reader; when
\* the port is still the one of the session and no other connect or
\* disconnect is under way, the session is open and Connected and its read
\* loop runs.  The connect handler starts its read loop once: not at the
\* open, and at the end of the toggle.
C24_SignalsFailureKeepsOpen ==
    [][\A c \in 1..MaxConnects :
         /\ (conn[c].pc = "open" /\ conn'[c].pc = "signals") =>
                /\ port' = conn[c].p /\ connected' /\ conn[c].p \in portOpen'
                /\ rloop' = rloop /\ reader' = reader
         /\ (conn[c].pc = "signals" /\ conn'[c].pc # "signals") =>
                /\ conn'[c] = ConnIdle
                /\ port' = port /\ connected' = connected /\ portOpen' = portOpen
                /\ (conn[c].p \in portOpen) =>
                       /\ rloop' = rloop \cup {conn[c].p}
                       /\ reader' = conn[c].p
                /\ (port = conn[c].p /\ \A d \in 1..MaxConnects : d # c => conn[d].pc = "idle") =>
                       /\ port' # 0 /\ port' \in portOpen' /\ connected'
                       /\ port' \in rloop' /\ reader' = port']_vars

\* a setSignals threw and the session is open with its read loop running
W_C24 ==
    /\ last.kind = "signalsFailed"
    /\ port # 0
    /\ port \in portOpen
    /\ connected
    /\ port \in rloop
    /\ reader = port

\* C25: resolution is a function of the current selection and the manifest
\* under every interleaving: once no onSelectionChanged waits for the
\* manifest and the load of init has settled, state.manifest is the entry
\* manifestMap holds for the current selection (null when it holds none),
\* and install and download are enabled exactly when there is one.
C25_ResolutionCurrent ==
    (pending = <<>> /\ ~initLoad /\ manifestMap # NULL) =>
        /\ manifest = Expected(manifestMap, <<program, chip, oled>>)
        /\ installDis = (manifest = NULL)
        /\ downloadDis = (manifest = NULL)

\* C26: one install operation uses one descriptor throughout.  With desc
\* the descriptor the image URL was taken from at the click: the handler
\* erases only when desc asks for it, flashes the whole image only when desc
\* has no parts and then at the address of desc, and loops over parts only
\* when desc has parts and then over those of desc.
C26_OneDescriptor ==
    [][\A i \in 1..MaxInstalls :
         LET op == inst[i]
             now == inst'[i] IN
         (op.pc \in {"espMain", "erase"} /\ now.pc # op.pc) =>
             /\ (now.pc = "erase") => op.desc.erase
             /\ (now.pc = "flash") =>
                    (~op.desc.hasParts /\ now.addr = flashAddress(op.desc))
             /\ (now.pc \in PartPcs) =>
                    (op.desc.hasParts /\ now.parts = op.desc.parts)]_vars

\* C27: the recorded session agrees with the connection in every quiescent
\* state: when no connect, disconnect or install handler is under way,
\* state.port is a port exactly when that port is open, and no other port
\* is open.
C27_SessionAgrees ==
    ((\A c \in 1..MaxConnects : conn[c].pc = "idle") /\ Running = {}) =>
        (portOpen = IF port = 0 THEN {} ELSE {port})

\* the selection of the simulated installer lacks a card
SimMissing(s) == s.selectedProgram = "" \/ s.selectedChip = "" \/ s.selectedOled = ""

\* C28: in the simulated installer at most one installation runs.  After
\* every event there is at most one timer, and one exactly while
\* isInstalling; the install button is disabled exactly when isInstalling or
\* a card is missing, the download button exactly when no program is
\* selected or isInstalling.  handleInstall called while isInstalling or
\* with a card missing changes nothing, and an installation only starts
\* with the three cards selected and none running.
C28_SimOneInstall ==
    [][/\ Len(sim'.timers) <= 1
       /\ sim'.isInstalling = (sim'.timers # <<>>)
       /\ sim'.installDisabled = (sim'.isInstalling \/ SimMissing(sim'))
       /\ sim'.downloadDisabled = (sim'.selectedProgram = "" \/ sim'.isInstalling)
       /\ (sim'.event = "ignored") =>
              /\ sim.isInstalling \/ SimMissing(sim)
              /\ sim' = [sim EXCEPT !.event = "ignored"]
       /\ (Len(sim'.timers) > Len(sim.timers) \/ sim'.event = "started") =>
              /\ ~sim.isInstalling /\ ~SimMissing(sim)
              /\ sim.timers = <<>>
              /\ sim'.isInstalling]_vars

\* handleInstall was called during an installation and did nothing
W_C28 ==
    /\ sim.event = "ignored"
    /\ sim.isInstalling
    /\ ~SimMissing(sim)
    /\ Len(sim.timers) = 1
    /\ sim.shown # <<>>

\* the percents of the six steps
SimPercents == <<17, 33, 50, 67, 83, 100>>

\* C29: every installation of the simulated installer goes through its six
\* steps in order: each tick shows the next step, with a wider bar and a
\* larger percent than before, the percents being 17, 33, 50, 67, 83 and
\* 100; the timer is stopped only after the sixth step, with the bar at
\* exactly 100%; the reset comes after that, makes isInstalling false, leaves
\* no timer and enables both buttons; while isInstalling stays true, no
\* event (a selection change included) enables the install button; and
\* every installation that was started is reset in the end.
C29_SimRunsToEnd ==
    /\ [][/\ (sim'.event = "tick") =>
                /\ Len(sim'.logs) = Len(sim.logs) + 1
                /\ sim'.logs = SubSeq(steps, 1, Len(sim'.logs))
                /\ sim'.shown = SubSeq(SimPercents, 1, Len(sim'.logs))
                /\ sim'.width > sim.width
                /\ ((sim.shown # <<>>) =>
                       (sim'.shown[Len(sim'.shown)] > sim.shown[Len(sim.shown)]))
          /\ (sim'.event = "cleared") =>
                /\ sim.logs = steps /\ sim.shown = SimPercents
                /\ sim.width = 100 * Len(steps)
                /\ sim'.isInstalling /\ sim'.installDisabled
          /\ (sim'.event = "reset") =>
                /\ sim.event = "cleared" \/ sim.timers[1].phase = "timeout"
                /\ sim'.shown = SimPercents /\ sim'.logs = steps
                /\ ~sim'.isInstalling /\ sim'.timers = <<>>
                /\ ~sim'.installDisabled /\ ~sim'.downloadDisabled
          /\ (sim.isInstalling /\ sim'.isInstalling) =>
                (sim'.installDisabled /\ sim'.downloadDisabled)
          /\ (sim.isInstalling /\ ~sim'.isInstalling) => (sim'.event = "reset")]_vars
    /\ (sim.isInstalling ~>
           (~sim.isInstalling /\ sim.event = "reset" /\ sim.shown = SimPercents
            /\ ~sim.installDisabled))

\* an installation ran to its end while the selection was changed
W_C29 ==
    /\ sim.event = "reset"
    /\ ~sim.isInstalling
    /\ sim.shown = SimPercents
    /\ sim.logs = steps
    /\ ~sim.installDisabled
    /\ sim.selectedProgram = "chatbot"
    /\ sim.selectedChip = "ESP32-S3-SUPER"

====
